---------------------------- MODULE Spec2Model ----------------------------
(***************************************************************************)
(* Lesson-check engine of the attendance reminder bot                      *)
(* (src/app/utils/lesson_check.py): the time window matcher                *)
(* get_lessons_to_check, the dispatch cycle check_lesson_marks with its    *)
(* process-wide notified_set, and the cron registration                    *)
(* setup_lesson_check_scheduler.                                           *)
(*                                                                         *)
(* Times of day are seconds since midnight, dates are day ordinals.  A     *)
(* value read from a lesson dict is a record with a "kind": the key may be *)
(* missing, hold None, or hold a string.                                   *)
(***************************************************************************)
EXTENDS Integers, Sequences, FiniteSets, TLC

VARIABLES
    \* ---- one evaluation of get_lessons_to_check (SpecMatcher) ----
    group_id,         \* argument group_id
    schedule_data,    \* argument schedule_data: a sequence of lesson dicts
    current_time,     \* argument current_time: [date, time]
    students_reply,   \* what get_students_by_group_with_digest answers
    lessons_out,      \* the call's outcome, or NotCalled
    \* ---- the running process (Spec, SpecSched) ----
    clock,            \* wall clock [date, time]
    schedulers,       \* the AsyncIOScheduler objects created so far
    setup_raised,     \* an exception left setup_lesson_check_scheduler
    fired_now,        \* <<scheduler, job id>> runs submitted at this instant
    running,          \* the check_lesson_marks coroutines in flight
    finished,         \* the check_lesson_marks call that returned last
    notified_set,     \* module-level notified_set
    send_count,       \* history: successful send_message calls per key
    cycles_started,   \* history: number of check_lesson_marks calls
    setup_calls,      \* history: calls of setup_lesson_check_scheduler
    cycle_failed,     \* history: the outer except has ended a cycle
    unsent_failed,    \* history: keys whose last send_message call raised
    sent_occurrence   \* history: the lesson a key's send_message was for

matcher_vars == <<group_id, schedule_data, current_time, students_reply, lessons_out>>
process_vars == <<clock, schedulers, setup_raised, fired_now, running, finished,
                  notified_set, send_count, cycles_started, setup_calls,
                  cycle_failed, unsent_failed, sent_occurrence>>
vars == <<group_id, schedule_data, current_time, students_reply, lessons_out,
          clock, schedulers, setup_raised, fired_now, running, finished,
          notified_set, send_count, cycles_started, setup_calls,
          cycle_failed, unsent_failed, sent_occurrence>>

----------------------------------------------------------------------------
(* Bounds of the model *)

MaxDay == 3          \* dates are 1..MaxDay
MaxLessons == 2      \* lessons in one schedule_data of the matcher runs
MaxSetups == 2       \* calls of setup_lesson_check_scheduler
MaxRunning == 2      \* coroutines in flight at once
MaxCycles == 2       \* check_lesson_marks calls in one behaviour

Dates == 1..MaxDay
Users == {1, 2}
NoneGroup == 0       \* group_id None

----------------------------------------------------------------------------
(* Values of dict fields *)

Missing == [kind |-> "missing"]                 \* the key is absent
Null == [kind |-> "null"]                       \* the key holds None
Txt(s) == [kind |-> "text", text |-> s]         \* a string that is no H:M:S
Hms(h, m, s) == [kind |-> "hms", h |-> h, m |-> m, s |-> s]  \* "HH:MM:SS"
DateStr(d, tail) == [kind |-> "date", date |-> d, tail |-> tail]
    \* the ISO string of date d followed by tail ("" or "T00:00:00")
Str(s) == [kind |-> "str", text |-> s]
Bool(b) == [kind |-> "bool", val |-> b]

\* Python truthiness of lesson.get(key)
Truthy(v) ==
    CASE v.kind = "missing" -> FALSE
      [] v.kind = "null" -> FALSE
      [] v.kind = "bool" -> v.val
      [] OTHER -> TRUE

SecondsOf(h, m, s) == h * 3600 + m * 60 + s

\* date.isoformat(): the 10 characters YYYY-MM-DD naming day d
IsoFormat(d) == <<"iso", d>>

\* str[:10] of a scheduleDate string
Prefix10(v) == IsoFormat(v.date)

----------------------------------------------------------------------------
(* parse_time, lines 35-40 *)

\* datetime.strptime(t, "%H:%M:%S").time(): a ValueError becomes None, a
\* TypeError (t is None) leaves the function.
parse_time(t) ==
    CASE t.kind = "null" -> [kind |-> "raise"]
      [] t.kind = "hms" /\ t.h <= 23 /\ t.m <= 59 /\ t.s <= 59 ->
            [kind |-> "time", secs |-> SecondsOf(t.h, t.m, t.s)]
      [] OTHER -> [kind |-> "none"]

\* (datetime.combine(date.today(), end) - timedelta(minutes=5)).time()
window_start(end) == (end - 5 * 60) % 86400

\* window_start <= now <= checkin_end, lines 73 and 86
InWindow(now, end) == window_start(end) <= now /\ now <= end

\* lesson.get("scheduleStatus") != "ACTIVE", line 51
StatusIgnored(lesson) == TRUE
IsActive(lesson) ==
    lesson.scheduleStatus.kind = "str" /\ lesson.scheduleStatus.text = "ACTIVE"

\* today_str, line 48
TodayStrSameDay(ct) == IsoFormat(ct.date)
today_str(ct) == IsoFormat(ct.date - 1)

\* lesson.get("scheduleDate", "")[:10] != today_str, line 54
DateMatches(lesson, ct) ==
    /\ lesson.scheduleDate.kind = "date"
    /\ Prefix10(lesson.scheduleDate) = today_str(ct)

Task(lesson, type, students) ==
    [lesson |-> lesson, type |-> type, students |-> students]

NoTasks == [error |-> "none", tasks |-> <<>>]
Raise(e) == [error |-> e, tasks |-> <<>>]

\* lines 79-90: the exit half of one loop iteration, after `sofar`
ExitPart(lesson, now, students, sofar) ==
    IF Truthy(lesson.checkOut) THEN [error |-> "none", tasks |-> sofar]
    ELSE IF lesson.checkoutEnd.kind = "missing" THEN Raise("time_field")
    ELSE LET checkout_end == parse_time(lesson.checkoutEnd) IN
      CASE checkout_end.kind = "raise" -> Raise("time_field")
        [] checkout_end.kind = "none" -> [error |-> "none", tasks |-> sofar]
        [] OTHER ->
             IF InWindow(now, checkout_end.secs)
             THEN IF lesson.moduleName.kind = "missing"
                  THEN Raise("module_name")
                  ELSE [error |-> "none",
                        tasks |-> Append(sofar, Task(lesson, "exit", students))]
             ELSE [error |-> "none", tasks |-> sofar]

\* lines 66-77, then the exit half unless the entry half ended the iteration
EntryThenExit(lesson, now, students) ==
    IF Truthy(lesson.checkIn) THEN ExitPart(lesson, now, students, <<>>)
    ELSE IF lesson.checkinEnd.kind = "missing" THEN Raise("time_field")
    ELSE LET checkin_end == parse_time(lesson.checkinEnd) IN
      CASE checkin_end.kind = "raise" -> Raise("time_field")
        [] checkin_end.kind = "none" -> NoTasks
        [] OTHER ->
             IF InWindow(now, checkin_end.secs)
             THEN IF lesson.moduleName.kind = "missing"
                  THEN Raise("module_name")
                  ELSE ExitPart(lesson, now, students,
                                <<Task(lesson, "entry", students)>>)
             ELSE ExitPart(lesson, now, students, <<>>)

\* an iteration that would read the time fields before looking at students
LessonTasksTimesFirst(gid, lesson, ct, reply) ==
    IF ~IsActive(lesson) THEN NoTasks
    ELSE IF lesson.scheduleDate.kind = "null" THEN Raise("schedule_date")
    ELSE IF ~DateMatches(lesson, ct) THEN NoTasks
    ELSE IF gid = NoneGroup THEN NoTasks
    ELSE IF reply.kind = "raise" THEN Raise("students_fetch")
    ELSE LET r == EntryThenExit(lesson, ct.time, reply.students) IN
         IF r.error # "none" THEN r
         ELSE IF reply.students = <<>> THEN NoTasks
         ELSE r

\* One iteration of the loop of get_lessons_to_check, lines 50-90
LessonTasks(gid, lesson, ct, reply) ==
    IF ~IsActive(lesson) THEN NoTasks
    ELSE IF lesson.scheduleDate.kind = "null" THEN Raise("schedule_date")
    ELSE IF ~DateMatches(lesson, ct) THEN NoTasks
    ELSE IF gid = NoneGroup THEN NoTasks
    ELSE IF reply.kind = "raise" THEN Raise("students_fetch")
    ELSE IF reply.students = <<>> THEN NoTasks
    ELSE EntryThenExit(lesson, ct.time, reply.students)

RECURSIVE MatchFrom(_, _, _, _, _, _)
MatchFrom(gid, data, ct, reply, i, acc) ==
    IF i > Len(data) THEN [error |-> "none", result |-> acc]
    ELSE LET r == LessonTasks(gid, data[i], ct, reply) IN
         IF r.error # "none" THEN [error |-> r.error, result |-> <<>>]
         ELSE MatchFrom(gid, data, ct, reply, i + 1, acc \o r.tasks)

\* get_lessons_to_check, lines 43-92: result is the returned list; error
\* names the exception that left the function, "none" when it returned
get_lessons_to_check(gid, data, ct, reply) ==
    MatchFrom(gid, data, ct, reply, 1, <<>>)


----------------------------------------------------------------------------
(* Lesson dicts *)

Lesson(status, sdate, name, cin, cinEnd, cout, coutEnd, st, et) ==
    [scheduleStatus |-> status, scheduleDate |-> sdate, moduleName |-> name,
     checkIn |-> cin, checkinEnd |-> cinEnd, checkOut |-> cout,
     checkoutEnd |-> coutEnd, startTime |-> st, endTime |-> et]

Modules == {"Algebra", "Physics"}
Types == {"entry", "exit"}
Keys == Users \X Modules \X Types

\* (user_id, lesson["moduleName"], action_type), line 118
KeyOf(user_id, lesson, type) == <<user_id, lesson.moduleName.text, type>>

----------------------------------------------------------------------------
(* The process before anything ran *)

NotCalled == [error |-> "pending", result |-> <<>>]

----------------------------------------------------------------------------
(* SpecMatcher: get_lessons_to_check applied to bounded inputs *)

\* checkIn with its checkinEnd: the deadline is read only when checkIn is falsy
EntryFields ==
    {<<Bool(TRUE), Hms(9, 40, 0)>>} \cup
    {<<Bool(FALSE), e>> : e \in {Hms(9, 40, 0), Hms(0, 3, 0), Missing, Null,
                                 Hms(24, 0, 0)}}
ExitFields ==
    {<<Bool(TRUE), Hms(9, 42, 0)>>} \cup
    {<<Bool(FALSE), e>> : e \in {Hms(9, 42, 0), Missing, Null, Hms(24, 0, 0)}}

\* The lesson under study: every combination of the fields the matcher reads
FocusLessons ==
    {Lesson(Str(st), DateStr(d, ""), nm, ef[1], ef[2], xf[1], xf[2],
            Hms(9, 35, 0), Hms(10, 55, 0)) :
        st \in {"ACTIVE", "CANCELED"}, d \in Dates,
        nm \in {Str("Algebra"), Missing}, ef \in EntryFields, xf \in ExitFields}

\* Other lessons of the same schedule_data
Neighbours ==
    {Lesson(Str("ACTIVE"), DateStr(d, "T00:00:00"), Str("Physics"), Bool(FALSE),
            Hms(9, 40, 0), Bool(TRUE), Hms(10, 55, 0), Hms(8, 15, 0),
            Hms(9, 35, 0)) : d \in {MaxDay - 1}} \cup
    {Lesson(Str("CANCELED"), DateStr(d, ""), Str("Algebra"), Bool(FALSE),
            Hms(9, 40, 0), Bool(FALSE), Hms(9, 42, 0), Hms(9, 35, 0),
            Hms(10, 55, 0)) : d \in {MaxDay - 1}} \cup
    {Lesson(Missing, Missing, Str("Physics"), Missing, Txt("n/a"), Missing,
            Txt("n/a"), Missing, Missing)}

RECURSIVE SeqsUpTo(_, _)
SeqsUpTo(S, n) ==
    IF n = 0 THEN {<<>>}
    ELSE LET shorter == SeqsUpTo(S, n - 1) IN
         shorter \cup {Append(q, x) : q \in shorter, x \in S}

\* schedule_data: the focus lesson among at most MaxLessons - 1 neighbours
MatcherSchedules ==
    {q \in {pre \o <<f>> \o post :
                f \in FocusLessons,
                pre \in SeqsUpTo(Neighbours, MaxLessons - 1),
                post \in SeqsUpTo(Neighbours, MaxLessons - 1)} :
        Len(q) <= MaxLessons}

\* Times of day around the deadlines 09:40:00, 09:42:00 and 00:03:00
MatcherTimes ==
    {SecondsOf(9, 34, 0), SecondsOf(9, 35, 0), SecondsOf(9, 40, 0),
     SecondsOf(9, 41, 0), SecondsOf(23, 57, 0), SecondsOf(23, 58, 0),
     SecondsOf(0, 3, 0), SecondsOf(0, 4, 0)}

StudentsOk(q) == [kind |-> "ok", students |-> q]
StudentsRaise == [kind |-> "raise"]

MatcherCalls ==
    {<<NoneGroup, StudentsOk(<<1>>)>>, <<7, StudentsOk(<<>>)>>,
     <<7, StudentsOk(<<1, 2>>)>>, <<7, StudentsRaise>>}

----------------------------------------------------------------------------
(* setup_lesson_check_scheduler, lines 157-178, and the cron triggers *)

REMINDER_TIMES ==
    << [hour |-> 9, minute |-> 35, label |-> "entry"],
       [hour |-> 10, minute |-> 55, label |-> "exit"],
       [hour |-> 11, minute |-> 5, label |-> "entry"],
       [hour |-> 12, minute |-> 25, label |-> "exit"],
       [hour |-> 12, minute |-> 35, label |-> "entry"],
       [hour |-> 13, minute |-> 55, label |-> "exit"],
       [hour |-> 13, minute |-> 5, label |-> "entry"],
       [hour |-> 15, minute |-> 25, label |-> "exit"],
       [hour |-> 15, minute |-> 35, label |-> "entry"],
       [hour |-> 16, minute |-> 55, label |-> "exit"],
       [hour |-> 17, minute |-> 5, label |-> "entry"],
       [hour |-> 18, minute |-> 25, label |-> "exit"] >>

\* id=f"lesson_check_{t.hour}_{t.minute}_{label}", line 169
JobId(t) == <<"lesson_check", t.hour, t.minute, t.label>>

\* CronTrigger(hour=t.hour, minute=t.minute, day_of_week="mon-sat"), 165-167
Job(t) == [id |-> JobId(t), hour |-> t.hour, minute |-> t.minute]

\* scheduler.add_job(..., id=..., replace_existing=True) on one scheduler's
\* job store: a job with the same id is replaced
add_job(jobs, job) == {j \in jobs : j.id # job.id} \cup {job}

RECURSIVE AddJobsFrom(_, _)
AddJobsFrom(jobs, i) ==
    IF i > Len(REMINDER_TIMES) THEN jobs
    ELSE AddJobsFrom(add_job(jobs, Job(REMINDER_TIMES[i])), i + 1)

\* date.weekday(): 0 is Monday, 6 is Sunday; day 1 of the model is a Friday
Weekday(d) == (d + 3) % 7

\* the scheduler object built by one call, lines 159-174: a new
\* AsyncIOScheduler with an empty job store of its own
NewScheduler(now) == [jobs |-> AddJobsFrom({}, 1), since |-> now]

\* a cron trigger fires at its hour:minute on Monday to Saturday, at times
\* after the scheduler was started
Due(sch, job, now) ==
    /\ now.time = SecondsOf(job.hour, job.minute, 0)
    /\ Weekday(now.date) # 6
    /\ \/ sch.since.date < now.date
       \/ sch.since.date = now.date /\ sch.since.time < now.time

TriggerSeconds ==
    {SecondsOf(REMINDER_TIMES[i].hour, REMINDER_TIMES[i].minute, 0) :
        i \in 1..Len(REMINDER_TIMES)}

Min(S) == CHOOSE x \in S : \A y \in S : x <= y

\* the next instant at which some trigger is set
NextInstant(now) ==
    LET later == {t \in TriggerSeconds : t > now.time} IN
    IF later # {} THEN [date |-> now.date, time |-> Min(later)]
    ELSE [date |-> now.date + 1, time |-> Min(TriggerSeconds)]

\* the runs <<scheduler, job id>> the schedulers submit at instant now
DueRuns(now) ==
    UNION {{<<s, j.id>> : j \in {x \in schedulers[s].jobs :
                                    Due(schedulers[s], x, now)}} :
           s \in 1..Len(schedulers)}

\* except Exception as e: logger.error(...); raise, lines 176-178: whether
\* the exception of add_job or start leaves setup_lesson_check_scheduler
SetupExceptSwallows == FALSE
SetupExcept == TRUE

\* setup_lesson_check_scheduler(bot): returns with a new started scheduler,
\* or add_job / start raised and the except clause of line 176 ran
Setup(limit) ==
    /\ setup_calls < limit
    /\ ~setup_raised
    /\ setup_calls' = setup_calls + 1
    /\ \/ /\ schedulers' = Append(schedulers, NewScheduler(clock))
          /\ UNCHANGED setup_raised
       \/ /\ setup_raised' = SetupExcept
          /\ UNCHANGED schedulers
    /\ UNCHANGED <<clock, fired_now, running, finished, notified_set,
                   send_count, cycles_started, cycle_failed, unsent_failed,
                   sent_occurrence>>
    /\ UNCHANGED matcher_vars

\* time passes to the next trigger instant; every run due now was submitted.
\* The process calls setup_lesson_check_scheduler when it starts: time is
\* followed from the first registration on.
Tick(serial) ==
    /\ Len(schedulers) > 0
    /\ DueRuns(clock) \subseteq fired_now
    /\ serial => running = {}
    /\ NextInstant(clock).date <= MaxDay
    /\ clock' = NextInstant(clock)
    /\ fired_now' = {}
    /\ UNCHANGED <<schedulers, setup_raised, running, finished, notified_set,
                   send_count, cycles_started, setup_calls, cycle_failed,
                   unsent_failed, sent_occurrence>>
    /\ UNCHANGED matcher_vars


----------------------------------------------------------------------------
(* check_lesson_marks, lines 95-154: one record per coroutine *)

\* The coroutine right after `now = datetime.now()`, awaiting the schedules.
\* n_items, n_skipped, n_attempted, n_failed, n_added, fetched and
\* stopped_by are history: students of the tasks matched so far, keys found
\* in notified_set, send_message calls, failed ones, keys added, what the
\* schedule fetch answered, the exception that ended the loop and
\* (attempted) the keys send_message was called for.
NewCycle(owner, now) ==
    [owner |-> owner, pc |-> "fetch", now |-> now, groups |-> <<>>, gi |-> 0,
     tasks |-> <<>>, ti |-> 1, si |-> 1, lang |-> "", text |-> <<>>,
     fetched |-> "", stopped_by |-> "none", raised |-> FALSE,
     n_items |-> 0, n_skipped |-> 0, n_attempted |-> 0, n_failed |-> 0,
     n_added |-> 0, attempted |-> {}]

\* no check_lesson_marks call has returned since the last one started
NoCycle == [NewCycle(<<0, <<>>>>, [date |-> 0, time |-> 0]) EXCEPT !.pc = "none"]

\* one lesson of the timetable: its day and the time it starts
Occurrence(lesson) == <<lesson.scheduleDate, lesson.startTime>>
NoOccurrence == <<Missing, Missing>>

\* the process starts at the beginning of any day
ProcessInit ==
    /\ clock \in [date : Dates, time : {0}]
    /\ schedulers = <<>>
    /\ setup_raised = FALSE
    /\ fired_now = {}
    /\ running = {}
    /\ finished = NoCycle
    /\ notified_set = {}
    /\ send_count = [k \in Keys |-> 0]
    /\ cycles_started = 0
    /\ setup_calls = 0
    /\ cycle_failed = FALSE
    /\ unsent_failed = {}
    /\ sent_occurrence = [k \in Keys |-> NoOccurrence]

\* except Exception as e: logger.error(...), lines 153-154: the coroutine
\* returns normally
OuterExceptMissing(c, e) ==
    [c EXCEPT !.pc = "done", !.stopped_by = e, !.raised = TRUE]
OuterExcept(c, e) == [c EXCEPT !.pc = "done", !.stopped_by = e]

\* lines 101-106: the schedules arrived (or the fetch raised)
AfterFetch(c, reply) ==
    IF reply.kind = "raise"
    THEN OuterExcept([c EXCEPT !.fetched = "raise"], "schedules_fetch")
    ELSE IF reply.groups = <<>>
    THEN [c EXCEPT !.pc = "done", !.fetched = "empty",
                   !.stopped_by = "no_schedules"]
    ELSE [c EXCEPT !.pc = "match", !.groups = reply.groups, !.gi = 1,
                   !.fetched = "ok"]

CurTask(c) == c.tasks[c.ti]
CurUser(c) == CurTask(c).students[c.si]
CurKey(c) == KeyOf(CurUser(c), CurTask(c).lesson, CurTask(c).type)

\* if key in notified_set: continue, lines 119-123
AlreadyNotifiedNever(key, ns) == FALSE
AlreadyNotified(key, ns) == key \in ns

\* The loops of lines 106-123 from the coroutine's position up to its next
\* await: keys found in notified_set are passed over; the coroutine stops at
\* the language lookup of the first key that is not, at the matcher call of
\* the next group, or returns
RECURSIVE Advance(_, _)
Advance(c, ns) ==
    IF c.ti > Len(c.tasks)
    THEN IF c.gi >= Len(c.groups)
         THEN [c EXCEPT !.pc = "done", !.gi = Len(c.groups) + 1]
         ELSE [c EXCEPT !.pc = "match", !.gi = c.gi + 1, !.tasks = <<>>,
                        !.ti = 1, !.si = 1]
    ELSE IF c.si > Len(CurTask(c).students)
    THEN Advance([c EXCEPT !.ti = c.ti + 1, !.si = 1], ns)
    ELSE IF AlreadyNotified(CurKey(c), ns)
    THEN Advance([c EXCEPT !.si = c.si + 1, !.n_skipped = c.n_skipped + 1], ns)
    ELSE [c EXCEPT !.pc = "lang"]

RECURSIVE CountStudents(_, _)
CountStudents(tasks, i) ==
    IF i > Len(tasks) THEN 0
    ELSE Len(tasks[i].students) + CountStudents(tasks, i + 1)

\* line 107 and on: the matcher answered for group c.gi
AfterMatch(c, m, ns) ==
    IF m.error # "none" THEN OuterExcept(c, m.error)
    ELSE Advance([c EXCEPT !.tasks = m.result, !.ti = 1, !.si = 1,
                           !.n_items = c.n_items + CountStudents(m.result, 1)],
                 ns)

\* LEXICON_MSG["lesson_check_entry"] and ["lesson_check_exit"] hold a list of
\* templates for each of these languages
LexiconLangs == {"en", "ru"}

\* value[:-3] of a time string: "HH:MM"
DropSeconds(v) == <<v.h, v.m>>

\* lines 125-140: lang = (reply) or "en", the template of the language and
\* the action, formatted with the module name and the start or end time
AfterLanguage(c, reply) ==
    IF reply.kind = "raise" THEN OuterExcept(c, "language")
    ELSE LET lang == IF reply.lang = "" THEN "en" ELSE reply.lang
             lesson == CurTask(c).lesson
             tfield == IF CurTask(c).type = "entry" THEN lesson.startTime
                       ELSE lesson.endTime
         IN IF lang \notin LexiconLangs THEN OuterExcept(c, "template")
            ELSE IF tfield.kind \in {"missing", "null"}
            THEN OuterExcept(c, "format")
            ELSE [c EXCEPT !.pc = "send", !.lang = lang,
                           !.text = <<CurTask(c).type, lesson.moduleName.text,
                                      DropSeconds(tfield)>>]

\* lines 143-145: send_message returned
SendSucceeded(c) ==
    [c EXCEPT !.si = c.si + 1, !.n_attempted = c.n_attempted + 1,
              !.n_added = c.n_added + 1, !.lang = "", !.text = <<>>,
              !.attempted = c.attempted \cup {CurKey(c)}]

\* lines 146-151: send_message raised; logged, continue
SendFailedBreaks(c) ==
    [c EXCEPT !.ti = Len(c.tasks) + 1, !.si = 1,
              !.n_attempted = c.n_attempted + 1,
              !.n_failed = c.n_failed + 1, !.lang = "", !.text = <<>>,
              !.attempted = c.attempted \cup {CurKey(c)}]
SendFailed(c) ==
    [c EXCEPT !.si = c.si + 1, !.n_attempted = c.n_attempted + 1,
              !.n_failed = c.n_failed + 1, !.lang = "", !.text = <<>>,
              !.attempted = c.attempted \cup {CurKey(c)}]

\* notified_set after a send_message call for key
NotifiedAlways(ns, key, ok) == ns \cup {key}
NotifiedAfterSend(ns, key, ok) == IF ok THEN ns \cup {key} ELSE ns

----------------------------------------------------------------------------
(* What the collaborators answer *)

HmsOf(secs) == Hms(secs \div 3600, (secs % 3600) \div 60, secs % 60)

\* A lesson of the day before now whose open windows close 5 minutes after
\* now: cin / cout are the checkIn / checkOut marks
FeedLesson(now, status, name, cin, cout) ==
    Lesson(Str(status), DateStr(now.date - 1, ""), Str(name), Bool(cin),
           HmsOf(now.time + 300), Bool(cout), HmsOf(now.time + 300),
           Hms(8, 15, 0), Hms(9, 35, 0))

Group(gid, data) == [group_id |-> gid, schedule_data |-> data]
SchedulesOk(groups) == [kind |-> "ok", groups |-> groups]
SchedulesRaise == [kind |-> "raise"]

\* get_all_group_schedules_today(today) for a cycle started at now
ScheduleFeed(now) ==
    LET entryA == FeedLesson(now, "ACTIVE", "Algebra", FALSE, TRUE)
        exitA == FeedLesson(now, "ACTIVE", "Algebra", TRUE, FALSE)
        bothA == FeedLesson(now, "ACTIVE", "Algebra", FALSE, FALSE)
        entryP == FeedLesson(now, "ACTIVE", "Physics", FALSE, TRUE)
        canceled == FeedLesson(now, "CANCELED", "Physics", FALSE, FALSE)
    IN  { SchedulesRaise,
          SchedulesOk(<<>>),
          SchedulesOk(<<Group(1, <<entryA>>)>>),
          SchedulesOk(<<Group(NoneGroup, <<entryA>>), Group(1, <<entryP, exitA>>)>>),
          SchedulesOk(<<Group(1, <<bothA>>), Group(2, <<entryA>>)>>),
          SchedulesOk(<<Group(1, <<canceled, exitA>>), Group(2, <<entryA>>)>>),
          SchedulesOk(<<Group(1, <<[entryA EXCEPT !.checkinEnd = Missing]>>),
                        Group(2, <<entryA>>)>>),
          SchedulesOk(<<Group(1, <<[bothA EXCEPT !.checkoutEnd = Null]>>),
                        Group(2, <<entryA>>)>>),
          SchedulesOk(<<Group(1, <<[entryA EXCEPT !.checkinEnd = Txt("n/a")],
                                   exitA>>),
                        Group(2, <<entryA>>)>>),
          SchedulesOk(<<Group(1, <<[entryA EXCEPT !.startTime = Missing]>>),
                        Group(2, <<entryA>>)>>) }

\* the Algebra lesson of the period that began 10 minutes before now, not
\* checked in or out
PeriodLesson(now) ==
    [FeedLesson(now, "ACTIVE", "Algebra", FALSE, FALSE)
        EXCEPT !.startTime = HmsOf(now.time - 600),
               !.endTime = HmsOf(now.time - 300)]

\* a feed for the runs in which coroutines overlap
SmallFeed(now) ==
    { SchedulesOk(<<>>),
      SchedulesOk(<<Group(1, <<FeedLesson(now, "ACTIVE", "Algebra", FALSE,
                                          TRUE)>>)>>),
      SchedulesOk(<<Group(1, <<PeriodLesson(now)>>)>>) }

\* get_students_by_group_with_digest(group_id)
StudentReplies == {StudentsRaise, StudentsOk(<<>>), StudentsOk(<<2>>),
                   StudentsOk(<<1, 2>>)}
SmallStudentReplies == {StudentsOk(<<1>>)}

\* get_user_language(user_id): a language, None (""), or an exception
LangReplies == {[kind |-> "raise"], [kind |-> "ok", lang |-> ""],
                [kind |-> "ok", lang |-> "ru"], [kind |-> "ok", lang |-> "de"]}
SmallLangReplies == {[kind |-> "ok", lang |-> ""]}

----------------------------------------------------------------------------
(* The steps of the process: one action per stretch of code between awaits *)

\* what is kept of a coroutine that returned
Returned(c) == [c EXCEPT !.tasks = <<>>, !.ti = 1, !.si = 1, !.lang = "",
                         !.text = <<>>]

\* the except clause of lines 153-154 ended the coroutine
EndedByException(c) == c.stopped_by \notin {"none", "no_schedules"}

\* the coroutine `old` moved to `new`; a coroutine that returned is finished
Settle(old, new) ==
    IF new.pc = "done"
    THEN /\ running' = running \ {old}
         /\ finished' = Returned(new)
         /\ cycle_failed' = (cycle_failed \/ EndedByException(new))
    ELSE /\ running' = (running \ {old}) \cup {new}
         /\ UNCHANGED <<finished, cycle_failed>>

\* A scheduler submits a due job: check_lesson_marks starts and runs to its
\* first await (lines 96-101), unless an instance of the same job of the same
\* scheduler is still running (APScheduler's max_instances = 1).  The
\* record of the call that returned last is dropped when a new one starts.
Fire ==
    \E run \in DueRuns(clock) \ fired_now :
        /\ cycles_started < MaxCycles
        /\ fired_now' = fired_now \cup {run}
        /\ IF \E c \in running : c.owner = run
           THEN UNCHANGED <<running, cycles_started>>
           ELSE /\ Cardinality(running) < MaxRunning
                /\ running' = running \cup {NewCycle(run, clock)}
                /\ cycles_started' = cycles_started + 1
        /\ finished' = NoCycle
        /\ UNCHANGED <<clock, schedulers, setup_raised, notified_set,
                       send_count, setup_calls, cycle_failed, unsent_failed,
                       sent_occurrence>>
        /\ UNCHANGED matcher_vars

\* get_all_group_schedules_today answers
Fetch(c, replies) ==
    /\ c.pc = "fetch"
    /\ \E reply \in replies : Settle(c, AfterFetch(c, reply))
    /\ UNCHANGED <<clock, schedulers, setup_raised, fired_now, notified_set,
                   send_count, cycles_started, setup_calls, unsent_failed,
                   sent_occurrence>>
    /\ UNCHANGED matcher_vars

\* get_lessons_to_check answers for the group at hand
Match(c, replies) ==
    /\ c.pc = "match"
    /\ \E reply \in replies :
         LET g == c.groups[c.gi]
             m == get_lessons_to_check(g.group_id, g.schedule_data, c.now, reply)
         IN Settle(c, AfterMatch(c, m, notified_set))
    /\ UNCHANGED <<clock, schedulers, setup_raised, fired_now, notified_set,
                   send_count, cycles_started, setup_calls, unsent_failed,
                   sent_occurrence>>
    /\ UNCHANGED matcher_vars

\* get_user_language answers
Language(c, replies) ==
    /\ c.pc = "lang"
    /\ \E reply \in replies : Settle(c, AfterLanguage(c, reply))
    /\ UNCHANGED <<clock, schedulers, setup_raised, fired_now, notified_set,
                   send_count, cycles_started, setup_calls, unsent_failed,
                   sent_occurrence>>
    /\ UNCHANGED matcher_vars

\* bot.send_message returns or raises; then on to the next await
Send(c) ==
    /\ c.pc = "send"
    /\ \E ok \in BOOLEAN :
         LET key == CurKey(c)
             ns == NotifiedAfterSend(notified_set, key, ok)
         IN /\ notified_set' = ns
            /\ send_count' = IF ok
                             THEN [send_count EXCEPT ![key] = @ + 1]
                             ELSE send_count
            /\ unsent_failed' = IF ok THEN unsent_failed \ {key}
                                ELSE unsent_failed \cup {key}
            /\ sent_occurrence' =
                  IF ok
                  THEN [sent_occurrence EXCEPT
                           ![key] = Occurrence(CurTask(c).lesson)]
                  ELSE sent_occurrence
            /\ Settle(c, Advance(IF ok THEN SendSucceeded(c)
                                 ELSE SendFailed(c), ns))
    /\ UNCHANGED <<clock, schedulers, setup_raised, fired_now, cycles_started,
                   setup_calls>>
    /\ UNCHANGED matcher_vars

InitAnyDay ==
    /\ group_id = NoneGroup
    /\ schedule_data = <<>>
    /\ current_time = [date |-> 1, time |-> 0]
    /\ students_reply = StudentsOk(<<>>)
    /\ lessons_out = NotCalled
    /\ ProcessInit

\* the process starts on day 1
Init == InitAnyDay /\ clock.date = 1

InitMatcher ==
    /\ \E call \in MatcherCalls :
          group_id = call[1] /\ students_reply = call[2]
    /\ schedule_data \in MatcherSchedules
    /\ current_time \in [date : Dates \ {1}, time : MatcherTimes]
    /\ lessons_out = NotCalled
    /\ ProcessInit
    /\ clock.date = 1

\* lessons_to_check = await get_lessons_to_check(group_id, schedule_data, now)
CallMatcher ==
    /\ lessons_out = NotCalled
    /\ lessons_out' = get_lessons_to_check(group_id, schedule_data,
                                           current_time, students_reply)
    /\ UNCHANGED <<group_id, schedule_data, current_time, students_reply>>
    /\ UNCHANGED process_vars

NextMatcher == CallMatcher

SpecMatcher == InitMatcher /\ [][NextMatcher]_vars

\* One registration, and a cycle returns before the next trigger instant
Next ==
    \/ Setup(1)
    \/ Tick(TRUE)
    \/ Fire
    \/ \E c \in running : Fetch(c, ScheduleFeed(c.now))
    \/ \E c \in running : Match(c, StudentReplies)
    \/ \E c \in running : Language(c, LangReplies)
    \/ \E c \in running : Send(c)

Spec == Init /\ [][Next]_vars

\* Registrations repeated and coroutines overlapping
NextSched ==
    \/ Setup(MaxSetups)
    \/ Tick(FALSE)
    \/ Fire
    \/ \E c \in running : Fetch(c, SmallFeed(c.now))
    \/ \E c \in running : Match(c, SmallStudentReplies)
    \/ \E c \in running : Language(c, SmallLangReplies)
    \/ \E c \in running : Send(c)

SpecSched == InitAnyDay /\ [][NextSched]_vars

----------------------------------------------------------------------------
(* Properties of the dispatch cycle (Spec) *)

Cycles == running \cup {finished}

\* C1: over cycles that do not overlap, with any mix of send successes and
\* failures, no key gets a second successful send_message, and no coroutine
\* looks up a language or sends for a key that is in notified_set.
C1_AtMostOneSendPerKey ==
    /\ \A k \in Keys : send_count[k] <= 1
    /\ \A c \in running :
          c.pc \in {"lang", "send"} => CurKey(c) \notin notified_set

\* a later cycle passed over a key that an earlier cycle had sent
C1_LaterCycleSkipsSentKey ==
    /\ cycles_started >= 2
    /\ finished.pc = "done"
    /\ finished.n_skipped >= 1
    /\ finished.n_added = 0
    /\ \E k \in Keys : send_count[k] = 1 /\ k \in notified_set

\* C2: every key of notified_set had a send_message call return; the set
\* changes only in the step in which a coroutine's send_message returns, by
\* exactly that coroutine's key, and it never loses a key.
C2_NotifiedOnlyAfterConfirmedSend ==
    /\ [](\A k \in notified_set : send_count[k] >= 1)
    /\ [][notified_set' # notified_set =>
            \E c \in running :
               /\ c.pc = "send"
               /\ notified_set' = notified_set \cup {CurKey(c)}
               /\ send_count'[CurKey(c)] = send_count[CurKey(c)] + 1]_vars
    /\ [][notified_set \subseteq notified_set']_vars

\* a cycle with a failed and a confirmed send returned: only the confirmed
\* one is recorded
C2_FailedAndConfirmedSend ==
    /\ finished.pc = "done"
    /\ finished.n_failed >= 1
    /\ finished.n_added = 1
    /\ Cardinality(notified_set) = 1

\* the <<task, student>> positions of the group at hand, in loop order
Positions(c) ==
    {p \in (1..Len(c.tasks)) \X (1..Cardinality(Users)) :
        p[2] <= Len(c.tasks[p[1]].students)}
Later(p, q) == q[1] > p[1] \/ (q[1] = p[1] /\ q[2] > p[2])
KeyAt(c, p) ==
    KeyOf(c.tasks[p[1]].students[p[2]], c.tasks[p[1]].lesson, c.tasks[p[1]].type)

\* the coroutine d is c after its send_message raised: it stands at the
\* first later student of the group whose key is not in notified_set, or,
\* when there is none, at the matcher call of the next group, or returned
\* after the last group
ContinuesAfterFailure(c, d) ==
    LET rest == {q \in Positions(c) :
                    Later(<<c.ti, c.si>>, q) /\ KeyAt(c, q) \notin notified_set}
    IN /\ d.stopped_by = "none"
       /\ ~d.raised
       /\ d.n_attempted = c.n_attempted + 1
       /\ IF rest # {}
          THEN /\ d.pc = "lang" /\ d.gi = c.gi /\ d.tasks = c.tasks
               /\ <<d.ti, d.si>> \in rest
               /\ \A q \in rest : q = <<d.ti, d.si>> \/ Later(<<d.ti, d.si>>, q)
          ELSE IF c.gi < Len(c.groups)
          THEN d.pc = "match" /\ d.gi = c.gi + 1
          ELSE d.pc = "done" /\ d.gi = Len(c.groups) + 1

\* C3: when send_message raises, the coroutine goes on with the next
\* student, task or group in the same step; a cycle in which a send failed,
\* and which no other exception ended, has gone through every group, every
\* student of every task either found in notified_set or sent to; no
\* exception leaves check_lesson_marks.
C3_SendFailureIsolated ==
    /\ [](\A c \in Cycles :
            /\ ~c.raised
            /\ (c.pc = "done" /\ c.n_failed >= 1 /\ c.stopped_by = "none") =>
                  /\ c.gi = Len(c.groups) + 1
                  /\ c.n_items = c.n_skipped + c.n_attempted)
    /\ [][\A c \in running :
            \A d \in running' \cup {finished'} :
               (c.pc = "send" /\ d.owner = c.owner
                              /\ d.n_failed = c.n_failed + 1)
                  => ContinuesAfterFailure(c, d)]_vars

\* every send of a cycle with two groups and three tasks failed, and each
\* of the six students was still attempted
C3_AllSendsFailedAllAttempted ==
    /\ finished.pc = "done"
    /\ finished.stopped_by = "none"
    /\ Len(finished.groups) = 2
    /\ finished.n_items = 6
    /\ finished.n_failed = 6

\* C4: a lesson whose checkinEnd or checkoutEnd is missing, None or
\* unparseable never ends the cycle.
C4_MalformedTimeNeverEndsCycle ==
    \A c \in Cycles : c.stopped_by # "time_field"

\* C5: once the schedules arrived, no error tied to one student or group
\* (student list fetch, language lookup, missing template, missing
\* startTime / endTime / moduleName) ends the cycle.
C5_OnlyMissingSchedulesEndCycle ==
    \A c \in Cycles :
       c.fetched = "ok" =>
          c.stopped_by \notin {"students_fetch", "language", "template",
                               "format", "module_name"}

\* C6: when the schedule fetch raises or answers an empty mapping the cycle
\* has returned without matching, sending or adding a key, and without an
\* exception reaching the caller.
C6_NoSchedulesEndsCycleQuietly ==
    \A c \in Cycles :
       c.fetched \in {"raise", "empty"} =>
          /\ c.pc = "done"
          /\ ~c.raised
          /\ c.gi = 0
          /\ c.n_items = 0
          /\ c.n_attempted = 0
          /\ c.n_added = 0

\* a cycle whose schedule fetch raised returned, after an earlier cycle had
\* notified
C6_FetchRaisedAfterNotifying ==
    /\ finished.pc = "done"
    /\ finished.fetched = "raise"
    /\ notified_set # {}

----------------------------------------------------------------------------
(* Properties of the matcher (SpecMatcher) *)

Returned_ok == lessons_out.error = "none"
Results == {lessons_out.result[i] : i \in 1..Len(lessons_out.result)}
HasTask(lesson, type) ==
    \E t \in Results : t.lesson = lesson /\ t.type = type

\* an ACTIVE lesson dated the day before current_time, with checkIn falsy
\* and a checkinEnd that reads as a time, in a group with students
EntryEligible(lesson) ==
    /\ lesson.scheduleStatus = Str("ACTIVE")
    /\ lesson.scheduleDate.kind = "date"
    /\ lesson.scheduleDate.date + 1 = current_time.date
    /\ ~Truthy(lesson.checkIn)
    /\ lesson.checkinEnd.kind = "hms"
    /\ lesson.checkinEnd.h <= 23
    /\ group_id # NoneGroup
    /\ students_reply.kind = "ok"
    /\ students_reply.students # <<>>

Deadline(lesson) ==
    SecondsOf(lesson.checkinEnd.h, lesson.checkinEnd.m, lesson.checkinEnd.s)

\* C7: in a call that returned, an eligible lesson has an entry task at
\* every time of the day from 5 minutes before checkinEnd up to checkinEnd,
\* and none one minute before or after that window.
C7_EntryWindowForEveryDeadline ==
    Returned_ok =>
       \A i \in 1..Len(schedule_data) :
          LET lesson == schedule_data[i]
              t == current_time.time
          IN EntryEligible(lesson) =>
                /\ (Deadline(lesson) - 300 <= t /\ t <= Deadline(lesson))
                      => HasTask(lesson, "entry")
                /\ (t = Deadline(lesson) + 60 \/ t = Deadline(lesson) - 360)
                      => ~HasTask(lesson, "entry")

\* C8: no task is for a lesson whose scheduleStatus is not ACTIVE.
C8_OnlyActiveLessons ==
    \A t \in Results : t.lesson.scheduleStatus = Str("ACTIVE")

\* an ACTIVE and a CANCELED lesson of the group are both inside the open
\* entry window, and the only task is the ACTIVE lesson's
C8_ActiveBesideCanceled ==
    /\ Returned_ok
    /\ Len(schedule_data) = 2
    /\ \E i, j \in 1..Len(schedule_data) :
          /\ schedule_data[i].scheduleStatus = Str("ACTIVE")
          /\ schedule_data[j].scheduleStatus = Str("CANCELED")
          /\ \A n \in {i, j} :
                /\ schedule_data[n].scheduleDate.kind = "date"
                /\ schedule_data[n].scheduleDate.date + 1 = current_time.date
                /\ schedule_data[n].checkIn = Bool(FALSE)
                /\ schedule_data[n].checkinEnd = Hms(9, 40, 0)
                /\ schedule_data[n].checkOut = Bool(TRUE)
          /\ current_time.time = SecondsOf(9, 35, 0)
          /\ Results = {Task(schedule_data[i], "entry", <<1, 2>>)}

\* C9: every task is for a lesson whose scheduleDate is the day before the
\* date of current_time.
C9_OnlyYesterdaysLessons ==
    \A t \in Results :
       /\ t.lesson.scheduleDate.kind = "date"
       /\ t.lesson.scheduleDate.date + 1 = current_time.date

\* a lesson dated the day of current_time and one dated the day before are
\* both inside the open entry window; the only task is for the latter
C9_SameDayLessonBesideYesterdays ==
    /\ Returned_ok
    /\ \E i, j \in 1..Len(schedule_data) :
          /\ \A n \in {i, j} : schedule_data[n].scheduleDate.kind = "date"
          /\ schedule_data[i].scheduleDate.date + 1 = current_time.date
          /\ schedule_data[j].scheduleDate.date = current_time.date
          /\ \A n \in {i, j} :
                /\ schedule_data[n].scheduleStatus = Str("ACTIVE")
                /\ schedule_data[n].checkIn = Bool(FALSE)
                /\ schedule_data[n].checkinEnd = Hms(9, 40, 0)
                /\ schedule_data[n].checkOut = Bool(TRUE)
          /\ current_time.time = SecondsOf(9, 40, 0)
          /\ Results = {Task(schedule_data[i], "entry", <<1, 2>>)}

----------------------------------------------------------------------------
(* Properties of the registration (SpecSched) *)

\* C10: after any number of registrations a reminder slot that is due
\* starts check_lesson_marks once: no two coroutines in flight were started
\* at the same instant for the same job id.
C10_ReRegistrationReplacesTriggers ==
    \A c1, c2 \in running :
       (c1.owner[2] = c2.owner[2] /\ c1.now = c2.now) => c1 = c2

----------------------------------------------------------------------------
(* The cycle and the scheduler (Spec) *)

\* C11: no exception leaves check_lesson_marks, whatever ended its loops;
\* no job is ever removed from a scheduler; time does not pass a due run
\* without it being submitted, and a submitted run starts a new cycle
\* unless an instance of the same job is still running.
C11_CycleOutcomeNeverDisablesTriggers ==
    /\ [](\A c \in Cycles :
            ~c.raised /\ (EndedByException(c) => c.pc = "done"))
    /\ [][\A s \in 1..Len(schedulers) :
            s <= Len(schedulers') /\ schedulers'[s] = schedulers[s]]_vars
    /\ [][clock' # clock => DueRuns(clock) \subseteq fired_now]_vars
    /\ [][\A run \in fired_now' \ fired_now :
            (\A c \in running : c.owner # run)
               => NewCycle(run, clock) \in running']_vars

\* a cycle is in flight after an earlier cycle was ended by an exception
C11_CycleStartedAfterFailedCycle ==
    /\ cycle_failed
    /\ \E c \in running : c.pc = "fetch" /\ c.now = clock

----------------------------------------------------------------------------
(* The registration's failure (Spec) *)

\* C12: every call of setup_lesson_check_scheduler either returned with a
\* new scheduler that holds the jobs and is started, or an exception left
\* it; a call in which add_job or start failed adds no scheduler and
\* raises.
C12_SetupFailurePropagates ==
    /\ [](setup_calls = Len(schedulers) + (IF setup_raised THEN 1 ELSE 0))
    /\ [][setup_calls' # setup_calls =>
            \/ /\ setup_raised'
               /\ schedulers' = schedulers
            \/ /\ setup_raised' = setup_raised
               /\ schedulers' = Append(schedulers, NewScheduler(clock))]_vars

\* the registration at process start failed: the exception left the call,
\* no scheduler runs and no cycle ever starts
C12_FirstSetupRaised ==
    /\ setup_raised
    /\ setup_calls = 1
    /\ schedulers = <<>>
    /\ cycles_started = 0

----------------------------------------------------------------------------
(* The life of a key (Spec) *)

\* the positions of the group at hand that the loops have left behind
Passed(c) == {p \in Positions(c) : Later(p, <<c.ti, c.si>>)}

\* C13: a key whose last send_message call raised is not in notified_set;
\* the loops of a cycle leave a student behind only when the key is in
\* notified_set or send_message was called for it in this cycle, so a key
\* left unsent is sent to again by the next cycle that meets it; and
\* notified_set never loses a key.
C13_FailedSendLeavesKeyUnsent ==
    /\ [](unsent_failed \cap notified_set = {})
    /\ [](\A c \in running :
            c.pc \in {"lang", "send"} =>
               \A p \in Passed(c) :
                  KeyAt(c, p) \in notified_set \cup c.attempted)
    /\ [][\A k \in unsent_failed' \ unsent_failed : k \notin notified_set']_vars
    /\ [][notified_set \subseteq notified_set']_vars

\* a cycle calls send_message for a key whose send failed in an earlier cycle
C13_RetryAfterFailedSend ==
    \E c \in running :
       /\ c.pc = "send"
       /\ c.n_failed = 0
       /\ CurKey(c) \in unsent_failed
       /\ CurKey(c) \notin c.attempted

----------------------------------------------------------------------------
(* The two windows of a lesson (SpecMatcher) *)

\* an ACTIVE lesson dated the day before current_time, with checkOut falsy
\* and a checkoutEnd that reads as a time, in a group with students
ExitEligible(lesson) ==
    /\ lesson.scheduleStatus = Str("ACTIVE")
    /\ lesson.scheduleDate.kind = "date"
    /\ lesson.scheduleDate.date + 1 = current_time.date
    /\ ~Truthy(lesson.checkOut)
    /\ lesson.checkoutEnd.kind = "hms"
    /\ lesson.checkoutEnd.h <= 23
    /\ group_id # NoneGroup
    /\ students_reply.kind = "ok"
    /\ students_reply.students # <<>>

ExitDeadline(lesson) ==
    SecondsOf(lesson.checkoutEnd.h, lesson.checkoutEnd.m, lesson.checkoutEnd.s)

ExitWindowOpen(lesson) ==
    /\ ExitEligible(lesson)
    /\ ExitDeadline(lesson) - 300 <= current_time.time
    /\ current_time.time <= ExitDeadline(lesson)

EntryWindowOpen(lesson) ==
    /\ EntryEligible(lesson)
    /\ Deadline(lesson) >= 300
    /\ Deadline(lesson) - 300 <= current_time.time
    /\ current_time.time <= Deadline(lesson)

\* C14: in a call that returned, a lesson whose exit window is open has an
\* exit task whatever its checkIn and checkinEnd hold, and a lesson with
\* both windows open has an entry and an exit task.
C14_ExitWindowIndependentOfEntry ==
    Returned_ok =>
       \A i \in 1..Len(schedule_data) :
          LET lesson == schedule_data[i] IN
          /\ ExitWindowOpen(lesson) => HasTask(lesson, "exit")
          /\ (ExitWindowOpen(lesson) /\ EntryWindowOpen(lesson))
                => HasTask(lesson, "entry")

----------------------------------------------------------------------------
(* One send per key and cycle (Spec) *)

\* C15: within one cycle send_message is called at most once for a key:
\* the calls of a cycle are as many as the keys it called for.
C15_OneAttemptPerKeyAndCycle ==
    \A c \in Cycles : c.n_attempted = Cardinality(c.attempted)

----------------------------------------------------------------------------
(* Coroutines that overlap (SpecSched) *)

\* C16: also when check_lesson_marks coroutines overlap, no key has two
\* send_message calls that returned.
C16_OverlappingCyclesSendOnce ==
    \A k \in Keys : send_count[k] < 2

\* the trigger slot of a coroutine: the job id of the run that started it
SlotOf(c) == c.owner[2]

\* C17: after any number of registrations, no check_lesson_marks coroutine
\* starts for a trigger slot while a coroutine started for that slot is
\* still in flight.
C17_NoStartWhileSlotStillRunning ==
    [][\A c \in running' \ running :
          c.pc = "fetch" => \A d \in running : SlotOf(d) # SlotOf(c)]_vars

----------------------------------------------------------------------------
(* A group without students (SpecMatcher) *)

\* C18: a call for a group whose student list is empty returns an empty
\* list and raises nothing, whatever the lessons' checkIn, checkinEnd,
\* checkOut and checkoutEnd hold.
C18_NoStudentsNoTasksNoError ==
    (/\ lessons_out # NotCalled
     /\ group_id # NoneGroup
     /\ students_reply = StudentsOk(<<>>))
       => lessons_out = [error |-> "none", result |-> <<>>]

\* the call returned for two lessons of a group without students, one of
\* them ACTIVE, dated the day before, with its exit window open, no
\* checkinEnd and no moduleName
C18_BrokenTimesWithoutStudents ==
    /\ Returned_ok
    /\ group_id # NoneGroup
    /\ students_reply = StudentsOk(<<>>)
    /\ Len(schedule_data) = 2
    /\ current_time.time = SecondsOf(9, 40, 0)
    /\ \E i \in 1..Len(schedule_data) :
          /\ schedule_data[i].scheduleStatus = Str("ACTIVE")
          /\ schedule_data[i].scheduleDate.kind = "date"
          /\ schedule_data[i].scheduleDate.date + 1 = current_time.date
          /\ schedule_data[i].checkIn = Bool(FALSE)
          /\ schedule_data[i].checkinEnd = Missing
          /\ schedule_data[i].checkOut = Bool(FALSE)
          /\ schedule_data[i].checkoutEnd = Hms(9, 42, 0)
          /\ schedule_data[i].moduleName = Missing

----------------------------------------------------------------------------
(* Class days and trigger days (SpecSched) *)

\* lessons are held Monday to Saturday
ClassDay(d) == Weekday(d) # 6

\* C19: the lessons of every class day get their cycles: on the day whose
\* date filter accepts the lessons dated d, a started scheduler has a run
\* due at every trigger time.
C19_ClassDayLessonsGetACycle ==
    \A d \in Dates :
       (/\ ClassDay(d)
        /\ today_str(clock) = IsoFormat(d)
        /\ clock.time \in TriggerSeconds
        /\ schedulers # <<>>)
          => DueRuns(clock) # {}

----------------------------------------------------------------------------
(* What a key stands for (SpecSched) *)

\* C20: a student is left behind as already notified only when the send
\* recorded for the key was for this very lesson: the same scheduleDate
\* and the same startTime.
C20_KeyIdentifiesOccurrence ==
    \A c \in running :
       c.pc \in {"lang", "send"} =>
          \A p \in Passed(c) :
             KeyAt(c, p) \in notified_set =>
                sent_occurrence[KeyAt(c, p)] = Occurrence(c.tasks[p[1]].lesson)

============================================================================
